---------------------------- MODULE Spec2Model ----------------------------
(***************************************************************************)
(* A model of the LANC standard Express service: the middleware pipeline   *)
(* of the server template, the three health endpoints, the 404 handler    *)
(* and the global error handler.                                           *)
(*                                                                         *)
(* Every request walks the layer stack in registration order, the way the  *)
(* Express router does: a layer runs when its path and method match and    *)
(* when its kind (ordinary / error handling) matches the request's error   *)
(* state.  A handler either answers the request or calls next().           *)
(***************************************************************************)
EXTENDS Integers, Sequences, FiniteSets, TLC

(* ------------------------------ bounds --------------------------------- *)

\* Number of requests the server receives in one behaviour.  Request 1 is
\* an arbitrary request; the further ones are liveness probes of the
\* orchestrator that arrive while it is handled.
NumReqs == 1

\* The clock (new Date(), process.uptime()) runs from 0 to MaxTime.
MaxTime == 1

(* --------------------------- value domains ----------------------------- *)

Reqs == 1 .. NumReqs

Methods == {"GET", "POST", "OPTIONS"}

Urls == {"/", "/health", "/health/readiness", "/health/liveness",
         "/api/example", "/nope"}

\* The absent value of JavaScript: an unset environment variable, a
\* missing header, a field that is not there.
Undefined == "undefined"

\* x-request-id header of a request.
RequestIds == {Undefined, "rid-1"}

\* Values a check can report.  'ready', 'error' and 'not_configured' are
\* what the check functions return; 'failed', 'degraded' and 'warning' are
\* the further values the aggregation of GET /health tests for; 'not_ready'
\* stands for any value none of the tests names.
CheckValues == {"ready", "not_configured", "error", "failed",
                "degraded", "warning", "not_ready"}

\* The keys of the checks object of GET /health.
HealthCheckNames == {"database", "external_api", "dependencies"}

\* The keys of the checks object of GET /health/readiness.
ReadinessCheckNames == {"database", "dependencies"}

\* Error objects that can be thrown while a request is handled.
Errors == {[message |-> "msg-1", stack |-> "stack-1"],
           [message |-> "msg-2", stack |-> "stack-2"]}

NoError == [message |-> "none", stack |-> "none"]

NoReq == [method |-> "none", url |-> "none", requestId |-> Undefined]

\* process.env as the handlers read it.
Envs == [NODE_ENV : {Undefined, "production"},
         API_KEY : {Undefined, "key"},
         npm_package_version : {Undefined, "2.0.0"},
         SERVICE_NAME : {Undefined, "svc"}]

\* The requests a client can send.
AnyRequest == [method : Methods, url : Urls, requestId : RequestIds]

\* The orchestrator's liveness probe.
ProbeRequest == {[method |-> "GET", url |-> "/health/liveness", requestId |-> Undefined]}

\* The empty checks object.
NoChecks == [n \in {} |-> "ready"]

\* Date.prototype.toISOString of the clock value t.
ToISOString(t) == <<"iso-8601", t>>

\* a || b of JavaScript for strings, with an unset variable falsy.
OrDefault(a, b) == IF a = Undefined THEN b ELSE a

VARIABLES
    env,      \* process.env
    config,   \* the constants the server module computes when it is loaded
    now,      \* the clock
    req,      \* req[r]: the request r as received, NoReq before
    pos,      \* pos[r]: index in Stack of the layer that runs next / answered
    err,      \* err[r]: the error the router carries for r, NoError if none
    hpc,      \* hpc[r]: position inside the asynchronous readiness handler
    checks,   \* checks[r]: check results gathered so far by the handler
    invoked,  \* invoked[r]: the dependency checks called while handling r
    resp,     \* resp[r]: the responses sent for r, in order
    errlog,   \* errlog[r]: console.error entries written while handling r
    outlog,   \* outlog[r]: console.log entries written while handling r
    bootEnv,  \* process.env as it was when the server module was loaded
    traffic,  \* traffic[r]: the requests that can arrive as request r
    server,   \* the http server: "listening", "closing" or "closed"
    exitCode, \* "none" while the process runs, then the code of process.exit
    atSignal, \* the requests received before the first termination signal
    ended,    \* the answered requests whose connection has ended
    nexts     \* nexts[r]: the arguments of the calls of next() by asyncHandler

\* What the handlers of the request pipeline leave alone.
ambient == <<bootEnv, traffic, server, exitCode, atSignal, ended, nexts>>

vars == <<env, config, now, req, pos, err, hpc, checks, invoked, resp, errlog,
          outlog, bootEnv, traffic, server, exitCode, atSignal, ended, nexts>>

(* ---------------------------- the pipeline ----------------------------- *)

\* The layers in registration order.  kind "use" is app.use(fn) (every
\* method, every path), "all" is app.use('*', fn), "route" is
\* app.get/app.post (exact method and path), "error" is the four-argument
\* error-handling middleware.
Stack == <<
    [name |-> "helmet",       kind |-> "use",   method |-> "*",    path |-> "*"],
    [name |-> "cors",         kind |-> "use",   method |-> "*",    path |-> "*"],
    [name |-> "json",         kind |-> "use",   method |-> "*",    path |-> "*"],
    [name |-> "urlencoded",   kind |-> "use",   method |-> "*",    path |-> "*"],
    [name |-> "logger",       kind |-> "use",   method |-> "*",    path |-> "*"],
    [name |-> "root",         kind |-> "route", method |-> "GET",  path |-> "/"],
    [name |-> "health",       kind |-> "route", method |-> "GET",  path |-> "/health"],
    [name |-> "readiness",    kind |-> "route", method |-> "GET",  path |-> "/health/readiness"],
    [name |-> "liveness",     kind |-> "route", method |-> "GET",  path |-> "/health/liveness"],
    [name |-> "notFound",     kind |-> "all",   method |-> "*",    path |-> "*"],
    [name |-> "errorHandler", kind |-> "error", method |-> "*",    path |-> "*"],
    [name |-> "finishLogger", kind |-> "use",   method |-> "*",    path |-> "*"],
    [name |-> "apiExample",   kind |-> "route", method |-> "POST", path |-> "/api/example"] >>

\* Past the last layer the router hands the request to Express's default
\* final handler.
FinalIdx == Len(Stack) + 1

\* The router's match of layer i against request q carrying error e.
Matches(i, q, e) ==
    LET l == Stack[i] IN
    /\ (l.kind = "error") <=> (e # NoError)
    /\ l.kind = "route" => (l.method = q.method /\ l.path = q.url)

\* next() / next(e) called from layer i: the first later layer that matches.
NextLayer(i, q, e) ==
    LET later == {j \in (i + 1) .. Len(Stack) : Matches(j, q, e)} IN
    IF later = {} THEN FinalIdx
    ELSE CHOOSE j \in later : \A k \in later : j <= k

\* The index of the layer called name.
LayerIndex(name) == CHOOSE i \in 1 .. Len(Stack) : Stack[i].name = name

\* The request r is at the layer called name, which has not run yet.
At(r, name) ==
    /\ exitCode = "none"
    /\ req[r] # NoReq
    /\ pos[r] \in 1 .. Len(Stack)
    /\ Stack[pos[r]].name = name
    /\ resp[r] = << >>

\* The server module has been loaded and listens; no request has arrived.
\* tr gives, for each request of the behaviour, what it can be.
Boot(tr) ==
    /\ bootEnv = env
    /\ config = [SERVICE_NAME |-> OrDefault(env.SERVICE_NAME, "LANC Service")]
    /\ now = 0
    /\ traffic = tr
    /\ req = [r \in DOMAIN tr |-> NoReq]
    /\ pos = [r \in DOMAIN tr |-> 0]
    /\ err = [r \in DOMAIN tr |-> NoError]
    /\ hpc = [r \in DOMAIN tr |-> "idle"]
    /\ checks = [r \in DOMAIN tr |-> NoChecks]
    /\ invoked = [r \in DOMAIN tr |-> {}]
    /\ resp = [r \in DOMAIN tr |-> << >>]
    /\ errlog = [r \in DOMAIN tr |-> << >>]
    /\ outlog = [r \in DOMAIN tr |-> << >>]
    /\ nexts = [r \in DOMAIN tr |-> << >>]
    /\ server = "listening"
    /\ exitCode = "none"
    /\ atSignal = {}
    /\ ended = {}

Init ==
    /\ env \in Envs
    /\ Boot([r \in Reqs |-> IF r = 1 THEN AnyRequest ELSE ProbeRequest])

\* The clock advances.
Tick ==
    /\ now < MaxTime
    /\ now' = now + 1
    /\ UNCHANGED <<ambient, env, config, req, pos, err, hpc, checks, invoked, resp, errlog, outlog>>

\* A request arrives on a new connection and enters the pipeline at its
\* first layer.
Receive(r) ==
    /\ exitCode = "none"
    /\ server = "listening"
    /\ req[r] = NoReq
    /\ \E q \in traffic[r] :
        /\ req' = [req EXCEPT ![r] = q]
        /\ pos' = [pos EXCEPT ![r] = NextLayer(0, q, NoError)]
    /\ UNCHANGED <<ambient, env, config, now, err, hpc, checks, invoked, resp, errlog, outlog>>

\* The handler at the current layer calls next().
CallNext(r) == pos' = [pos EXCEPT ![r] = NextLayer(pos[r], req[r], err[r])]

\* The handler sends a response: res.status(code).json(body).
Send(r, code, body) ==
    resp' = [resp EXCEPT ![r] = Append(@, [code |-> code, body |-> body])]

(* ------------------------- response bodies ----------------------------- *)

\* HasErrors with the test for 'error' lost.
HasErrors_OnlyFailed(c) == \E n \in DOMAIN c : c[n] = "failed"

\* Object.values(checks).some(status => status === 'error' || status === 'failed')
HasErrors(c) == \E n \in DOMAIN c : c[n] = "error" \/ c[n] = "failed"

\* HasWarnings with the test for 'warning' lost.
HasWarnings_OnlyDegraded(c) == \E n \in DOMAIN c : c[n] = "degraded"

\* HasWarnings that takes every value other than 'ready' for a warning.
HasWarnings_NotReady(c) == \E n \in DOMAIN c : c[n] # "ready"

\* Object.values(checks).some(status => status === 'degraded' || status === 'warning')
HasWarnings(c) == \E n \in DOMAIN c : c[n] = "degraded" \/ c[n] = "warning"

\* hasErrors ? 'error' : hasWarnings ? 'degraded' : 'healthy'
OverallStatus(c) ==
    IF HasErrors(c) THEN "error"
    ELSE IF HasWarnings(c) THEN "degraded"
    ELSE "healthy"

\* HealthStatusCode with the degraded status signalled as a failure too.
HealthStatusCode_Strict(status) == IF status = "healthy" THEN 200 ELSE 503

\* status === 'error' ? 503 : 200
HealthStatusCode(status) == IF status = "error" THEN 503 ELSE 200

\* The body GET /health sends on its normal path.
HealthBody(c, e, t) ==
    [status      |-> OverallStatus(c),
     service     |-> "Your Service Name",
     version     |-> OrDefault(e.npm_package_version, "1.0.0"),
     timestamp   |-> ToISOString(t),
     environment |-> OrDefault(e.NODE_ENV, "development"),
     uptime      |-> t,
     checks      |-> c,
     notes       |-> IF OverallStatus(c) = "degraded"
                     THEN "Some services degraded" ELSE "null"]

\* The status code GET /health sends from its catch block.
HealthCatchCode == 503

\* The body GET /health sends from its catch block.
HealthCatchBody(error, t) ==
    [status    |-> "error",
     service   |-> "Your Service Name",
     timestamp |-> ToISOString(t),
     error     |-> error.message]

\* IsReady that takes every value other than 'error' for a pass.
IsReady_NotError(c) == \A n \in DOMAIN c : c[n] # "error"

\* IsReady that takes only 'ready' for a pass.
IsReady_OnlyReady(c) == \A n \in DOMAIN c : c[n] = "ready"

\* Object.values(checks).every(status => status === 'ready' || status === 'not_configured')
IsReady(c) == \A n \in DOMAIN c : c[n] = "ready" \/ c[n] = "not_configured"

\* ReadinessStatusCode that signals 'not ready' at the transport level.
ReadinessStatusCode_Signal(isReady) == IF isReady THEN 200 ELSE 503

\* The status code GET /health/readiness sends on its normal path: always
\* 200, ready or not.
ReadinessStatusCode(isReady) == 200

\* The body GET /health/readiness sends on its normal path.
ReadinessBody(c, t) ==
    [status    |-> IF IsReady(c) THEN "ready" ELSE "not ready",
     service   |-> "Your Service Name",
     timestamp |-> ToISOString(t),
     checks    |-> c]

\* The status code GET /health/readiness sends from its catch block.
ReadinessCatchCode == 200

\* The body GET /health/readiness sends from its catch block.
ReadinessCatchBody(error, t) ==
    [status    |-> "not ready",
     service   |-> "Your Service Name",
     timestamp |-> ToISOString(t),
     error     |-> error.message]

\* The status code GET /health/liveness sends.
LivenessCode == 200

\* The body GET /health/liveness sends.
LivenessBody(t) ==
    [status    |-> "alive",
     service   |-> "Your Service Name",
     uptime    |-> t,
     timestamp |-> ToISOString(t)]

\* The body GET / sends.
RootBody(cfg, e, t) ==
    [message     |-> <<cfg.SERVICE_NAME, "is running">>,
     version     |-> OrDefault(e.npm_package_version, "1.0.0"),
     timestamp   |-> ToISOString(t),
     environment |-> OrDefault(e.NODE_ENV, "development")]

\* The endpoint catalogue of the 404 body, by category.
AvailableEndpoints ==
    [ui       |-> {"GET /"},
     health   |-> {"GET /health", "GET /health/readiness", "GET /health/liveness"},
     api      |-> {"POST /api/endpoint", "GET /api/resource"},
     webhooks |-> {"POST /webhook/type"}]

\* The status code the 404 handler sends.
NotFoundCode == 404

\* NotFoundBody that names the path but not the method.
NotFoundBody_NoMethod(q, t) ==
    [error              |-> "Endpoint not found",
     message            |-> <<"The endpoint", q.url, "does not exist">>,
     availableEndpoints |-> AvailableEndpoints,
     timestamp          |-> ToISOString(t)]

\* The body the 404 handler sends for request q.
NotFoundBody(q, t) ==
    [error              |-> "Endpoint not found",
     message            |-> <<"The endpoint", q.method, q.url, "does not exist">>,
     availableEndpoints |-> AvailableEndpoints,
     timestamp          |-> ToISOString(t)]

\* The entry the global error handler writes with console.error.
ErrorLogEntry(q, error, t) ==
    [tag       |-> "Unhandled server error:",
     error     |-> error.message,
     stack     |-> error.stack,
     method    |-> q.method,
     url       |-> q.url,
     timestamp |-> ToISOString(t)]

\* The status code the global error handler sends.
ErrorHandlerCode == 500

\* ErrorHandlerBody that passes the error's own message on to the client.
ErrorHandlerBody_Leak(q, error, e, t) ==
    [error     |-> "Internal Server Error",
     message   |-> error.message,
     timestamp |-> ToISOString(t),
     requestId |-> IF e.NODE_ENV = "production" THEN q.requestId ELSE Undefined]

\* The body the global error handler sends for request q and error `error`.
ErrorHandlerBody(q, error, e, t) ==
    [error     |-> "Internal Server Error",
     message   |-> "An unexpected error occurred",
     timestamp |-> ToISOString(t),
     requestId |-> IF e.NODE_ENV = "production" THEN q.requestId ELSE Undefined]

\* An entry a catch block writes: console.error(tag, error.message).
CatchLogEntry(tag, error) ==
    [tag |-> tag, error |-> error.message]

Log(r, entry) == errlog' = [errlog EXCEPT ![r] = Append(@, entry)]

(* ----------------------------- middleware ------------------------------ *)

\* app.use(helmet()): sets security headers and calls next().
Helmet(r) ==
    /\ At(r, "helmet")
    /\ CallNext(r)
    /\ UNCHANGED <<ambient, env, config, now, req, err, hpc, checks, invoked, resp, errlog, outlog>>

\* app.use(cors({...})): a preflight (OPTIONS) request is answered here with
\* 204 and an empty body; any other request gets the CORS headers and next().
Cors(r) ==
    /\ At(r, "cors")
    /\ IF req[r].method = "OPTIONS"
       THEN /\ Send(r, 204, [empty |-> TRUE])
            /\ pos' = pos
       ELSE /\ CallNext(r)
            /\ resp' = resp
    /\ UNCHANGED <<ambient, env, config, now, req, err, hpc, checks, invoked, errlog, outlog>>

\* app.use(express.json({limit})): the body parses and next() is called, or
\* parsing fails (malformed JSON, body over the limit) and next(error) is.
JsonBody(r) ==
    /\ At(r, "json")
    /\ \E error \in Errors \cup {NoError} :
        /\ err' = [err EXCEPT ![r] = error]
        /\ pos' = [pos EXCEPT ![r] = NextLayer(pos[r], req[r], error)]
    /\ UNCHANGED <<ambient, env, config, now, req, hpc, checks, invoked, resp, errlog, outlog>>

\* app.use(express.urlencoded({extended: true})): as express.json, for form
\* bodies.
UrlEncoded(r) ==
    /\ At(r, "urlencoded")
    /\ \E error \in Errors \cup {NoError} :
        /\ err' = [err EXCEPT ![r] = error]
        /\ pos' = [pos EXCEPT ![r] = NextLayer(pos[r], req[r], error)]
    /\ UNCHANGED <<ambient, env, config, now, req, hpc, checks, invoked, resp, errlog, outlog>>

\* The request logging middleware: console.log(timestamp - method path).
RequestLogger(r) ==
    /\ At(r, "logger")
    /\ outlog' = [outlog EXCEPT ![r] =
                     Append(@, <<ToISOString(now), req[r].method, req[r].url>>)]
    /\ CallNext(r)
    /\ UNCHANGED <<ambient, env, config, now, req, err, hpc, checks, invoked, resp, errlog>>

(* ------------------------------- routes -------------------------------- *)

\* app.get('/'): service information.
Root(r) ==
    /\ At(r, "root")
    /\ Send(r, 200, RootBody(config, env, now))
    /\ UNCHANGED <<ambient, env, config, now, req, pos, err, hpc, checks, invoked, errlog, outlog>>

\* app.get('/health').  The three entries of checks are the results of the
\* service's actual checks (the template's 'ready' literals stand for them);
\* a fault inside the try block takes the handler to its catch block.
Health(r) ==
    /\ At(r, "health")
    /\ \/ \E c \in [HealthCheckNames -> CheckValues] :
            /\ checks' = [checks EXCEPT ![r] = c]
            /\ Send(r, HealthStatusCode(OverallStatus(c)), HealthBody(c, env, now))
            /\ hpc' = [hpc EXCEPT ![r] = "sent"]
            /\ errlog' = errlog
       \/ \E error \in Errors :
            /\ Log(r, CatchLogEntry("Health check failed:", error))
            /\ Send(r, HealthCatchCode, HealthCatchBody(error, now))
            /\ hpc' = [hpc EXCEPT ![r] = "caught"]
            /\ checks' = checks
    /\ UNCHANGED <<ambient, env, config, now, req, pos, err, invoked, outlog>>

\* CheckDatabaseResult whose catch block does not report the failure.
CheckDatabaseResult_Swallow(outcome) == "ready"

\* The value checkDatabase() resolves to: 'ready' when its try block
\* completes (outcome = NoError), 'error' from its catch block.
CheckDatabaseResult(outcome) ==
    IF outcome = NoError THEN "ready" ELSE "error"

\* The value checkDependencies() resolves to.
CheckDependenciesResult(outcome, e) ==
    IF outcome # NoError THEN "error"
    ELSE IF e.API_KEY = Undefined THEN "not_configured"
    ELSE "ready"

\* app.get('/health/readiness') up to its first await: checkDatabase() is
\* called.
ReadinessStart(r) ==
    /\ At(r, "readiness")
    /\ hpc[r] = "idle"
    /\ hpc' = [hpc EXCEPT ![r] = "awaitDatabase"]
    /\ invoked' = [invoked EXCEPT ![r] = @ \cup {"database"}]
    /\ UNCHANGED <<ambient, env, config, now, req, pos, err, checks, resp, errlog, outlog>>

\* checkDatabase() settles: its try block completed or threw into its catch
\* block.  The handler resumes and calls checkDependencies().
CheckDatabase(r) ==
    /\ At(r, "readiness")
    /\ hpc[r] = "awaitDatabase"
    /\ \E outcome \in Errors \cup {NoError} :
        /\ IF outcome = NoError
           THEN errlog' = errlog
           ELSE Log(r, CatchLogEntry("Database check failed:", outcome))
        /\ checks' = [checks EXCEPT ![r] =
                         ("database" :> CheckDatabaseResult(outcome)) @@ @]
    /\ hpc' = [hpc EXCEPT ![r] = "awaitDependencies"]
    /\ invoked' = [invoked EXCEPT ![r] = @ \cup {"dependencies"}]
    /\ UNCHANGED <<ambient, env, config, now, req, pos, err, resp, outlog>>

\* checkDependencies() settles.
CheckDependencies(r) ==
    /\ At(r, "readiness")
    /\ hpc[r] = "awaitDependencies"
    /\ \E outcome \in Errors \cup {NoError} :
        /\ IF outcome = NoError
           THEN errlog' = errlog
           ELSE Log(r, CatchLogEntry("Dependency check failed:", outcome))
        /\ checks' = [checks EXCEPT ![r] =
                         ("dependencies" :> CheckDependenciesResult(outcome, env)) @@ @]
    /\ hpc' = [hpc EXCEPT ![r] = "respond"]
    /\ UNCHANGED <<ambient, env, config, now, req, pos, err, invoked, resp, outlog>>

\* The operation a check awaits (the database ping, the external service
\* call) never settles: nothing in the check or in the handler bounds the
\* wait.
CheckHangs(r) ==
    /\ At(r, "readiness")
    /\ hpc[r] \in {"awaitDatabase", "awaitDependencies"}
    /\ hpc' = [hpc EXCEPT ![r] = "hung"]
    /\ UNCHANGED <<ambient, env, config, now, req, pos, err, checks, invoked, resp, errlog, outlog>>

\* ReadinessRespond that keeps the check results in one object of the
\* module, which every request writes and reads.
ReadinessRespond_Shared(r) ==
    /\ At(r, "readiness")
    /\ hpc[r] = "respond"
    /\ \E k \in DOMAIN req :
        /\ DOMAIN checks[k] = ReadinessCheckNames
        /\ Send(r, ReadinessStatusCode(IsReady(checks[k])), ReadinessBody(checks[k], now))
    /\ hpc' = [hpc EXCEPT ![r] = "sent"]
    /\ UNCHANGED <<ambient, env, config, now, req, pos, err, checks, invoked, errlog, outlog>>

\* app.get('/health/readiness') after its awaits: the response is built and
\* sent; a fault inside the try block takes the handler to its catch block.
ReadinessRespond(r) ==
    /\ At(r, "readiness")
    /\ hpc[r] = "respond"
    /\ \/ /\ Send(r, ReadinessStatusCode(IsReady(checks[r])), ReadinessBody(checks[r], now))
          /\ hpc' = [hpc EXCEPT ![r] = "sent"]
       \/ \E error \in Errors :
            /\ Send(r, ReadinessCatchCode, ReadinessCatchBody(error, now))
            /\ hpc' = [hpc EXCEPT ![r] = "caught"]
    /\ UNCHANGED <<ambient, env, config, now, req, pos, err, checks, invoked, errlog, outlog>>

\* Liveness that consults the database check before it answers.
Liveness_Checked(r) ==
    /\ At(r, "liveness")
    /\ \E outcome \in Errors \cup {NoError} :
        /\ invoked' = [invoked EXCEPT ![r] = @ \cup {"database"}]
        /\ Send(r, IF outcome = NoError THEN 200 ELSE 503,
                [LivenessBody(now) EXCEPT
                    !.status = IF outcome = NoError THEN "alive" ELSE "error"])
    /\ UNCHANGED <<ambient, env, config, now, req, pos, err, hpc, checks, errlog, outlog>>

\* app.get('/health/liveness').
Liveness(r) ==
    /\ At(r, "liveness")
    /\ Send(r, LivenessCode, LivenessBody(now))
    /\ UNCHANGED <<ambient, env, config, now, req, pos, err, hpc, checks, invoked, errlog, outlog>>

(* --------------------------- error handlers ---------------------------- *)

\* app.use('*', ...): the 404 handler.
NotFound(r) ==
    /\ At(r, "notFound")
    /\ Send(r, NotFoundCode, NotFoundBody(req[r], now))
    /\ UNCHANGED <<ambient, env, config, now, req, pos, err, hpc, checks, invoked, errlog, outlog>>

\* app.use((err, req, res, next) => ...): the global error handler.
ErrorHandler(r) ==
    /\ At(r, "errorHandler")
    /\ Log(r, ErrorLogEntry(req[r], err[r], now))
    /\ Send(r, ErrorHandlerCode, ErrorHandlerBody(req[r], err[r], env, now))
    /\ UNCHANGED <<ambient, env, config, now, req, pos, err, hpc, checks, invoked, outlog>>

Next ==
    \/ Tick
    \/ \E r \in DOMAIN req :
        \/ Receive(r)
        \/ Helmet(r)
        \/ Cors(r)
        \/ JsonBody(r)
        \/ UrlEncoded(r)
        \/ RequestLogger(r)
        \/ Root(r)
        \/ Health(r)
        \/ ReadinessStart(r)
        \/ CheckDatabase(r)
        \/ CheckDependencies(r)
        \/ CheckHangs(r)
        \/ ReadinessRespond(r)
        \/ Liveness(r)
        \/ NotFound(r)
        \/ ErrorHandler(r)

Spec == Init /\ [][Next]_vars

\* The event loop runs whatever is ready to run.
FairSpec == Spec /\ WF_vars(Next)

(* --------------------- the environment after start --------------------- *)

\* process.env is an ordinary mutable object: code running in the process
\* assigns one of its variables, or deletes it, after the server module was
\* loaded.
SetEnv ==
    /\ exitCode = "none"
    /\ env = bootEnv
    /\ \E k \in DOMAIN env :
        \E e \in Envs :
            /\ e[k] # env[k]
            /\ \A j \in DOMAIN env \ {k} : e[j] = env[j]
            /\ env' = e
    /\ UNCHANGED <<ambient, config, now, req, pos, err, hpc, checks, invoked, resp, errlog, outlog>>

EnvNext == Next \/ SetEnv

\* The server in a process whose environment changes once after start.
EnvSpec == Init /\ [][EnvNext]_vars

(* ------------------------- the process life cycle ---------------------- *)

\* The requests that have been received.
Received == {r \in DOMAIN req : req[r] # NoReq}

\* The requests that have been answered.
Answered == {r \in DOMAIN req : resp[r] # << >>}

\* A later request of a client arrives on the connection that carried an
\* answered request k and was kept alive. server.close() stops the server
\* from listening for new connections; it leaves the open ones alone, so
\* the request is parsed and dispatched also while the server is closing.
ReceiveOnKeptAlive(r) ==
    /\ exitCode = "none"
    /\ req[r] = NoReq
    /\ \E k \in Answered \ ended : ended' = ended \cup {k}
    /\ \E q \in traffic[r] :
        /\ req' = [req EXCEPT ![r] = q]
        /\ pos' = [pos EXCEPT ![r] = NextLayer(0, q, NoError)]
    /\ UNCHANGED <<bootEnv, traffic, server, exitCode, atSignal, nexts>>
    /\ UNCHANGED <<env, config, now, err, hpc, checks, invoked, resp, errlog, outlog>>

\* The connection of an answered request ends: the client closes it or the
\* keep-alive timeout of the server runs out.
ConnectionEnds(r) ==
    /\ exitCode = "none"
    /\ r \in Answered \ ended
    /\ ended' = ended \cup {r}
    /\ UNCHANGED <<bootEnv, traffic, server, exitCode, atSignal, nexts>>
    /\ UNCHANGED <<env, config, now, req, pos, err, hpc, checks, invoked, resp, errlog, outlog>>

\* process.on('SIGTERM') / process.on('SIGINT'): server.close(callback) is
\* called.
Signal ==
    /\ exitCode = "none"
    /\ server = "listening"
    /\ server' = "closing"
    /\ atSignal' = Received
    /\ UNCHANGED <<bootEnv, traffic, exitCode, ended, nexts>>
    /\ UNCHANGED <<env, config, now, req, pos, err, hpc, checks, invoked, resp, errlog, outlog>>

\* The callback of server.close(): every connection has ended, the server
\* emits 'close' and the callback calls process.exit(0).
ServerClosed ==
    /\ exitCode = "none"
    /\ server = "closing"
    /\ Received \subseteq ended
    /\ server' = "closed"
    /\ exitCode' = "0"
    /\ UNCHANGED <<bootEnv, traffic, atSignal, ended, nexts>>
    /\ UNCHANGED <<env, config, now, req, pos, err, hpc, checks, invoked, resp, errlog, outlog>>

\* process.on('uncaughtException') / process.on('unhandledRejection'): an
\* exception that no handler catches ends the process at once.
UncaughtException ==
    /\ exitCode = "none"
    /\ exitCode' = "1"
    /\ UNCHANGED <<bootEnv, traffic, server, atSignal, ended, nexts>>
    /\ UNCHANGED <<env, config, now, req, pos, err, hpc, checks, invoked, resp, errlog, outlog>>

\* A client that sends one request and then, on the same or on a new
\* connection, a probe.
LifeInit ==
    /\ env \in {e \in Envs : e.SERVICE_NAME = Undefined /\ e.npm_package_version = Undefined}
    /\ Boot([r \in 1 .. NumReqs + 1 |->
                IF r = 1 THEN {q \in AnyRequest : q.requestId = Undefined}
                ELSE ProbeRequest])

LifeNext ==
    \/ Next
    \/ Signal
    \/ ServerClosed
    \/ UncaughtException
    \/ \E r \in DOMAIN req :
        \/ ReceiveOnKeptAlive(r)
        \/ ConnectionEnds(r)

\* The server from start to exit.
LifeSpec == LifeInit /\ [][LifeNext]_vars

(* ------------------------- the wrapped route --------------------------- *)

\* asyncHandler(fn): Promise.resolve(fn(req, res, next)).catch(next). The
\* calls of next the wrapper makes when the promise of fn settles with
\* outcome: none when it fulfils, one with the reason when it rejects.
AsyncHandlerNexts(outcome) ==
    IF outcome = NoError THEN << >> ELSE <<outcome>>

\* The value someAsyncOperation() resolves to.
ExampleResult == [result |-> "result"]

\* The wrapped handler of app.post('/api/example') is called and runs up to
\* its await.
ApiExampleCall(r) ==
    /\ At(r, "apiExample")
    /\ hpc[r] = "idle"
    /\ hpc' = [hpc EXCEPT ![r] = "awaitOperation"]
    /\ UNCHANGED <<ambient, env, config, now, req, pos, err, checks, invoked, resp, errlog, outlog>>

\* someAsyncOperation() settles: the handler sends the result, or its
\* promise rejects and the wrapper hands the reason to next.
ApiExampleSettle(r) ==
    /\ At(r, "apiExample")
    /\ hpc[r] = "awaitOperation"
    /\ \E outcome \in Errors \cup {NoError} :
        /\ nexts' = [nexts EXCEPT ![r] = @ \o AsyncHandlerNexts(outcome)]
        /\ IF outcome = NoError
           THEN /\ Send(r, 200, ExampleResult)
                /\ hpc' = [hpc EXCEPT ![r] = "sent"]
                /\ UNCHANGED <<err, pos>>
           ELSE /\ err' = [err EXCEPT ![r] = outcome]
                /\ pos' = [pos EXCEPT ![r] = NextLayer(pos[r], req[r], outcome)]
                /\ hpc' = [hpc EXCEPT ![r] = "rejected"]
                /\ UNCHANGED resp
    /\ UNCHANGED <<bootEnv, traffic, server, exitCode, atSignal, ended>>
    /\ UNCHANGED <<env, config, now, req, checks, invoked, errlog, outlog>>

\* The body Express's default final handler sends for an error: the stack
\* of the error unless the app was created in production.
FinalHandlerBody(error, e) ==
    [html |-> IF e.NODE_ENV = "production" THEN "Internal Server Error" ELSE error.stack]

\* An error has run past the last layer of the stack: Express's default
\* final handler logs its stack and answers 500.
FinalHandler(r) ==
    /\ exitCode = "none"
    /\ req[r] # NoReq
    /\ pos[r] = FinalIdx
    /\ err[r] # NoError
    /\ resp[r] = << >>
    /\ Log(r, [tag |-> "finalhandler", error |-> err[r].stack])
    /\ Send(r, 500, FinalHandlerBody(err[r], bootEnv))
    /\ UNCHANGED <<ambient, env, config, now, req, pos, err, hpc, checks, invoked, outlog>>

\* The router calls the wrapped handler of POST /api/example.
WrapInit ==
    /\ env \in Envs
    /\ bootEnv = env
    /\ config = [SERVICE_NAME |-> OrDefault(env.SERVICE_NAME, "LANC Service")]
    /\ now = 0
    /\ \E q \in {x \in AnyRequest : x.method = "POST" /\ x.url = "/api/example"} :
        /\ traffic = [r \in Reqs |-> {q}]
        /\ req = [r \in Reqs |-> q]
    /\ pos = [r \in Reqs |-> LayerIndex("apiExample")]
    /\ err = [r \in Reqs |-> NoError]
    /\ hpc = [r \in Reqs |-> "idle"]
    /\ checks = [r \in Reqs |-> NoChecks]
    /\ invoked = [r \in Reqs |-> {}]
    /\ resp = [r \in Reqs |-> << >>]
    /\ errlog = [r \in Reqs |-> << >>]
    /\ outlog = [r \in Reqs |-> << >>]
    /\ nexts = [r \in Reqs |-> << >>]
    /\ server = "listening"
    /\ exitCode = "none"
    /\ atSignal = {}
    /\ ended = {}

\* The steps of the router from the wrapped route on: an error that next
\* receives goes to the first error-handling layer further down the stack,
\* to the default final handler if there is none.
WrapNext ==
    \/ Tick
    \/ \E r \in DOMAIN req : ApiExampleCall(r)
    \/ \E r \in DOMAIN req : ApiExampleSettle(r)
    \/ \E r \in DOMAIN req : FinalHandler(r)

\* The wrapped route under every outcome of its handler.
WrapSpec == WrapInit /\ [][WrapNext]_vars

(* -------------------------- concurrent requests ------------------------ *)

\* The requests of a client that calls the health endpoints and a path that
\* does not exist.
ConcTraffic ==
    {q \in AnyRequest :
        /\ q.method = "GET"
        /\ q.url \in {"/health", "/health/readiness", "/health/liveness", "/nope"}
        /\ q.requestId = Undefined}

\* The requests of an orchestrator that probes readiness and liveness.
ProbeTraffic == {q \in ConcTraffic : q.url \in {"/health/readiness", "/health/liveness"}}

\* Two requests are in flight at once: the event loop interleaves the steps
\* of their handlers at every await and between every two layers.
ConcInit ==
    /\ env \in {e \in Envs : /\ e.SERVICE_NAME = Undefined
                             /\ e.npm_package_version = Undefined
                             /\ e.NODE_ENV = Undefined}
    /\ Boot([r \in 1 .. NumReqs + 1 |-> IF r = 1 THEN ConcTraffic ELSE ProbeTraffic])

\* The server under two concurrent requests.
ConcSpec == ConcInit /\ [][Next]_vars

(* ------------------------------ properties ----------------------------- *)

\* The request r has been answered by the layer called name.
AnsweredBy(r, name) ==
    /\ req[r] # NoReq
    /\ pos[r] \in 1 .. Len(Stack)
    /\ Stack[pos[r]].name = name
    /\ resp[r] # << >>

\* The last response sent for r.
LastResp(r) == resp[r][Len(resp[r])]

\* GET /health has answered r from its normal path, with a report.
HealthReported(r) == AnsweredBy(r, "health") /\ hpc[r] = "sent"

\* GET /health/readiness has answered r from its normal path.
ReadinessReported(r) == AnsweredBy(r, "readiness") /\ hpc[r] = "sent"

\* The check function's catch block ran while r was handled.
CheckThrew(r, tag) == \E i \in DOMAIN errlog[r] : errlog[r][i].tag = tag

\* The body b without its timestamp.
Redact(b) == [f \in DOMAIN b \ {"timestamp"} |-> b[f]]

\* Some text field of the body b carries the message or the stack of error.
Leaks(b, error) ==
    \E f \in DOMAIN b \ {"timestamp"} : b[f] \in {error.message, error.stack}

\* Some route registered ahead of the 404 handler matches the request q.
MatchesEarlierRoute(q) ==
    \E i \in 1 .. Len(Stack) :
        /\ Stack[i].kind = "route"
        /\ Stack[i].method = q.method
        /\ Stack[i].path = q.url
        /\ \E j \in (i + 1) .. Len(Stack) : Stack[j].name = "notFound"

\* The response is the structured 404 for request q.
IsNotFoundResponse(x, q) ==
    /\ x.code = 404
    /\ DOMAIN x.body = {"error", "message", "availableEndpoints", "timestamp"}
    /\ \E i \in DOMAIN x.body.message : x.body.message[i] = q.method
    /\ \E i \in DOMAIN x.body.message : x.body.message[i] = q.url
    /\ DOMAIN x.body.availableEndpoints = {"ui", "health", "api", "webhooks"}
    /\ \E t \in 0 .. MaxTime : x.body.timestamp = ToISOString(t)

\* C1: every report of GET /health whose checks hold at least one 'error'
\* has overall status 'error', whatever the other checks say.
C1_AnyErrorGivesError ==
    \A r \in Reqs : HealthReported(r) =>
        LET b == LastResp(r).body IN
        (\E n \in DOMAIN b.checks : b.checks[n] = "error") => b.status = "error"

\* A report with one 'error' among a 'degraded' and a 'ready' check.
C1_Witness ==
    \E r \in Reqs :
        /\ HealthReported(r)
        /\ LastResp(r).body.checks =
              [database |-> "ready", external_api |-> "error", dependencies |-> "degraded"]

\* C2 as stated: every report of GET /health whose checks hold no 'error'
\* but at least one 'degraded' or 'warning' has overall status 'degraded'.
C2_Original ==
    \A r \in Reqs : HealthReported(r) =>
        LET b == LastResp(r).body IN
        (/\ \A n \in DOMAIN b.checks : b.checks[n] # "error"
         /\ \E n \in DOMAIN b.checks : b.checks[n] \in {"degraded", "warning"})
        => b.status = "degraded"

\* C2 amended: every report of GET /health whose checks hold no 'error' and
\* no 'failed' but at least one 'degraded' or 'warning' has overall status
\* 'degraded'.
C2_NoErrorNoFailedGivesDegraded ==
    \A r \in Reqs : HealthReported(r) =>
        LET b == LastResp(r).body IN
        (/\ \A n \in DOMAIN b.checks : b.checks[n] \notin {"error", "failed"}
         /\ \E n \in DOMAIN b.checks : b.checks[n] \in {"degraded", "warning"})
        => b.status = "degraded"

\* A report with a 'warning' and neither 'error' nor 'failed'.
C2_Witness ==
    \E r \in Reqs :
        /\ HealthReported(r)
        /\ LastResp(r).body.checks =
              [database |-> "ready", external_api |-> "warning", dependencies |-> "not_configured"]

\* C3: every report of GET /health in which every check is 'ready' or
\* 'not_configured' has overall status 'healthy'.
C3_AllReadyGivesHealthy ==
    \A r \in Reqs : HealthReported(r) =>
        LET b == LastResp(r).body IN
        (\A n \in DOMAIN b.checks : b.checks[n] \in {"ready", "not_configured"})
        => b.status = "healthy"

\* A report with 'ready' and 'not_configured' checks only.
C3_Witness ==
    \E r \in Reqs :
        /\ HealthReported(r)
        /\ LastResp(r).body.checks =
              [database |-> "ready", external_api |-> "ready", dependencies |-> "not_configured"]

\* C4: every response of GET /health, from its normal path or from its catch
\* block, has code 503 exactly when its body's status is 'error', and code
\* 200 otherwise.
C4_Code503IffError ==
    \A r \in Reqs : AnsweredBy(r, "health") =>
        \A i \in DOMAIN resp[r] :
            /\ resp[r][i].code = 503 <=> resp[r][i].body.status = "error"
            /\ resp[r][i].body.status # "error" => resp[r][i].code = 200

\* GET /health has answered from its catch block.
C4_Witness ==
    \E r \in Reqs :
        /\ AnsweredBy(r, "health")
        /\ hpc[r] = "caught"
        /\ LastResp(r).code = 503

\* C5: every response of GET /health/liveness has code 200 and status
\* 'alive', and no dependency check was called while it was handled.
C5_LivenessAlwaysAlive ==
    \A r \in Reqs : AnsweredBy(r, "liveness") =>
        /\ invoked[r] = {}
        /\ checks[r] = NoChecks
        /\ \A i \in DOMAIN resp[r] :
            /\ resp[r][i].code = 200
            /\ resp[r][i].body.status = "alive"

\* GET /health/liveness has answered.
C5_Witness ==
    \E r \in Reqs : AnsweredBy(r, "liveness") /\ Len(resp[r]) = 1

\* C6: every response of GET /health/readiness has code 200, whether all
\* checks passed, some check reported a non-ready value or threw, or the
\* handler's catch block answered; ready / not ready is in the body only.
C6_ReadinessAlways200 ==
    \A r \in Reqs : AnsweredBy(r, "readiness") =>
        \A i \in DOMAIN resp[r] :
            /\ resp[r][i].code = 200
            /\ resp[r][i].body.status \in {"ready", "not ready"}

\* GET /health/readiness has answered 'not ready' after a check threw.
C6_Witness ==
    \E r \in Reqs :
        /\ ReadinessReported(r)
        /\ CheckThrew(r, "Database check failed:")
        /\ LastResp(r).body.status = "not ready"

\* C7: a check that throws is caught inside the check function: the router
\* sees no error and the handler goes on, and the readiness report carries
\* 'error' for that check next to an entry for every other check.
C7_CheckFailureCaughtLocally ==
    \A r \in Reqs :
        /\ (CheckThrew(r, "Database check failed:") \/ CheckThrew(r, "Dependency check failed:"))
              => /\ err[r] = NoError
                 /\ Stack[pos[r]].name = "readiness"
                 /\ hpc[r] \notin {"idle", "awaitDatabase"}
        /\ ReadinessReported(r) =>
              LET c == LastResp(r).body.checks IN
              /\ DOMAIN c = ReadinessCheckNames
              /\ CheckThrew(r, "Database check failed:") => c["database"] = "error"
              /\ CheckThrew(r, "Dependency check failed:") => c["dependencies"] = "error"
              /\ ~CheckThrew(r, "Database check failed:") => c["database"] = "ready"
              /\ ~CheckThrew(r, "Dependency check failed:")
                    => c["dependencies"] \in {"ready", "not_configured"}

\* A readiness report after the database check threw and the dependency
\* check passed.
C7_Witness ==
    \E r \in Reqs :
        /\ ReadinessReported(r)
        /\ CheckThrew(r, "Database check failed:")
        /\ LastResp(r).body.checks = [database |-> "error", dependencies |-> "ready"]

\* C8: a readiness request whose check never completes still gets its
\* response.
C8_HungCheckStillAnswered ==
    \A r \in Reqs : (hpc[r] = "hung") ~> (resp[r] # << >>)

\* C9: every response of the global error handler is a 500 whose body is the
\* generic one: fixed error and message, a timestamp, nothing of the
\* error's message or stack, and the same body (timestamp aside) whichever
\* error was thrown; the message, stack, method and URL are in the log.
C9_ErrorBodyGeneric ==
    \A r \in Reqs : AnsweredBy(r, "errorHandler") =>
        LET x == LastResp(r) IN
        /\ err[r] \in Errors
        /\ x.code = 500
        /\ x.body.error = "Internal Server Error"
        /\ x.body.message = "An unexpected error occurred"
        /\ \E t \in 0 .. MaxTime : x.body.timestamp = ToISOString(t)
        /\ ~Leaks(x.body, err[r])
        /\ \A other \in Errors :
              Redact(x.body) = Redact(ErrorHandlerBody(req[r], other, env, now))
        /\ \E i \in DOMAIN errlog[r] :
              /\ errlog[r][i].tag = "Unhandled server error:"
              /\ errlog[r][i].error = err[r].message
              /\ errlog[r][i].stack = err[r].stack
              /\ errlog[r][i].method = req[r].method
              /\ errlog[r][i].url = req[r].url

\* The global error handler has answered a request that carries a
\* request id, in production.
C9_Witness ==
    \E r \in Reqs :
        /\ AnsweredBy(r, "errorHandler")
        /\ env.NODE_ENV = "production"
        /\ req[r].requestId # Undefined

\* C10 as stated: every request that no route registered ahead of the 404
\* handler matches is answered with the structured 404.
C10_Original ==
    \A r \in Reqs :
        (resp[r] # << >> /\ ~MatchesEarlierRoute(req[r]))
        => IsNotFoundResponse(LastResp(r), req[r])

\* C10 amended: every request that no route registered ahead of the 404
\* handler matches, that is not a preflight (OPTIONS) request and that the
\* body parsers let through, is answered with the structured 404.
C10_UnmatchedGets404 ==
    \A r \in Reqs :
        (/\ resp[r] # << >>
         /\ ~MatchesEarlierRoute(req[r])
         /\ req[r].method # "OPTIONS"
         /\ err[r] = NoError)
        => AnsweredBy(r, "notFound") /\ IsNotFoundResponse(LastResp(r), req[r])

\* POST /api/example, whose route is registered after the 404 handler, has
\* been answered.
C10_Witness ==
    \E r \in Reqs :
        /\ AnsweredBy(r, "notFound")
        /\ req[r] = [method |-> "POST", url |-> "/api/example", requestId |-> Undefined]

\* The request r ended in a fault: a routing miss, an error handed to the
\* router, or a failure inside a health handler.
Faulted(r) ==
    \/ AnsweredBy(r, "notFound")
    \/ err[r] # NoError
    \/ hpc[r] = "caught"

\* The fault of r is an internal one, not a routing miss.
InternalFault(r) == err[r] # NoError \/ hpc[r] = "caught"

\* The console.error entries written for the fault of r itself: the ones
\* that no check function wrote.
FaultLogEntries(r) ==
    {i \in DOMAIN errlog[r] :
        errlog[r][i].tag \notin {"Database check failed:", "Dependency check failed:"}}

\* C11: every answered request that ended in a fault got exactly one
\* response, and exactly one error log entry when the fault was internal.
C11_OneResponseOneLogEntry ==
    \A r \in DOMAIN req :
        (resp[r] # << >> /\ Faulted(r)) =>
            /\ Len(resp[r]) = 1
            /\ InternalFault(r) => Cardinality(FaultLogEntries(r)) = 1

\* C13: the checks of one health request start together: once one check
\* has been called, every check of the handler has been called.
C13_ChecksStartTogether ==
    \A r \in DOMAIN req :
        invoked[r] # {} => invoked[r] = ReadinessCheckNames

\* C17: no body sent from a failure path (the catch block of a health
\* handler, the global error handler) carries an error's message or stack.
C17_NoFailureBodyLeaks ==
    \A r \in DOMAIN req :
        (resp[r] # << >> /\ InternalFault(r)) =>
            \A error \in Errors : ~Leaks(LastResp(r).body, error)

\* C18: the global error handler is the last layer of the stack, and every
\* request that carries an error is at the global error handler.
C18_ErrorHandlerIsLast ==
    /\ LayerIndex("errorHandler") = Len(Stack)
    /\ \A r \in DOMAIN req : err[r] # NoError => pos[r] = LayerIndex("errorHandler")

\* Some registered route matches the request q.
MatchesRoute(q) ==
    \E i \in 1 .. Len(Stack) :
        /\ Stack[i].kind = "route"
        /\ Stack[i].method = q.method
        /\ Stack[i].path = q.url

\* C19: the 404 handler answers only requests that no registered route
\* matches.
C19_NotFoundOnlyForUnmatched ==
    \A r \in DOMAIN req :
        AnsweredBy(r, "notFound") => ~MatchesRoute(req[r])

\* The values of a check that count as passed.
PassValues == {"ready", "not_configured"}

C15_ResponsesUseStartEnv ==
    \A r \in DOMAIN req :
        /\ AnsweredBy(r, "root") =>
             Redact(LastResp(r).body) = Redact(RootBody(config, bootEnv, 0))
        /\ HealthReported(r) =>
             Redact(LastResp(r).body) = Redact(HealthBody(checks[r], bootEnv, LastResp(r).body.uptime))
        /\ (ReadinessReported(r) /\ ~CheckThrew(r, "Dependency check failed:")) =>
             LastResp(r).body.checks["dependencies"] = CheckDependenciesResult(NoError, bootEnv)
        /\ AnsweredBy(r, "errorHandler") =>
             Redact(LastResp(r).body) = Redact(ErrorHandlerBody(req[r], err[r], bootEnv, 0))

\* C12: once a termination signal has been received no request is received
\* any more, and the process exits with code 0 only when the server has
\* closed and every request received before the signal has been answered.
C12_GracefulShutdown ==
    /\ server # "listening" => Received \subseteq atSignal
    /\ exitCode = "0" => (server = "closed" /\ atSignal \subseteq Answered)

C14_ResponsesAsIfAlone ==
    \A r \in DOMAIN req : \A i \in DOMAIN resp[r] :
        LET x == resp[r][i] IN
        /\ AnsweredBy(r, "liveness") =>
             (x.code = 200 /\ x.body.status = "alive")
        /\ (AnsweredBy(r, "readiness") /\ hpc[r] = "sent") =>
             /\ x.code = 200
             /\ x.body.checks = checks[r]
             /\ x.body.status =
                  IF \A n \in DOMAIN checks[r] : checks[r][n] \in PassValues
                  THEN "ready" ELSE "not ready"
        /\ (AnsweredBy(r, "readiness") /\ hpc[r] = "caught") =>
             (x.code = 200 /\ x.body.status = "not ready")
        /\ (AnsweredBy(r, "health") /\ hpc[r] = "sent") =>
             /\ x.body.checks = checks[r]
             /\ x.body.status = OverallStatus(checks[r])
             /\ x.code = IF OverallStatus(checks[r]) = "error" THEN 503 ELSE 200
        /\ (AnsweredBy(r, "health") /\ hpc[r] = "caught") =>
             (x.code = 503 /\ x.body.status = "error")
        /\ AnsweredBy(r, "notFound") =>
             (x.code = 404 /\ Redact(x.body) = Redact(NotFoundBody(req[r], 0)))
        /\ AnsweredBy(r, "errorHandler") =>
             (x.code = 500 /\ x.body.error = "Internal Server Error")

\* A readiness request was answered 'not ready' at time 1 while another
\* readiness request, logged at time 0 and so received before that answer,
\* was still waiting for its dependency check with a passed database check.
C14_Witness ==
    \E r \in DOMAIN req : \E k \in DOMAIN req \ {r} :
        /\ ReadinessReported(r)
        /\ LastResp(r).body.status = "not ready"
        /\ LastResp(r).body.timestamp = ToISOString(1)
        /\ checks[r]["database"] = "error"
        /\ resp[k] = << >>
        /\ hpc[k] = "awaitDependencies"
        /\ checks[k]["database"] = "ready"
        /\ outlog[k] # << >>
        /\ outlog[k][1][1] = ToISOString(0)

\* C21: the two health views agree on one check mapping. For the mapping of
\* a GET /health report, the readiness rule gives ready only if the
\* report's status is 'healthy', and gives not ready if it is 'error'; for
\* the mapping of a readiness report, status 'ready' comes only with an
\* aggregation of 'healthy', and an aggregation of 'error' only with
\* 'not ready'.
C21_ViewsAgree ==
    \A r \in DOMAIN req :
        /\ HealthReported(r) =>
             LET b == LastResp(r).body IN
             /\ IsReady(b.checks) => b.status = "healthy"
             /\ b.status = "error" => ~IsReady(b.checks)
        /\ ReadinessReported(r) =>
             LET b == LastResp(r).body IN
             /\ b.status = "ready" => OverallStatus(b.checks) = "healthy"
             /\ OverallStatus(b.checks) = "error" => b.status = "not ready"

\* GET /health has reported 'healthy' for a mapping with a
\* 'not_configured' check, which the readiness rule classifies as ready.
C21_Witness ==
    \E r \in DOMAIN req :
        /\ HealthReported(r)
        /\ \E n \in HealthCheckNames : LastResp(r).body.checks[n] = "not_configured"
        /\ \A n \in HealthCheckNames : LastResp(r).body.checks[n] \in PassValues
        /\ IsReady(LastResp(r).body.checks)
        /\ LastResp(r).body.status = "healthy"

=============================================================================
